---- MODULE Spec2Model ----
(***************************************************************************)
(* Model of docker/fastapi/main.py, the SupaFast API: module start-up     *)
(* (the two required environment variables), the HTTPBearer security      *)
(* dependency, verify_jwt (python-jose's jwt.decode restricted to HS256), *)
(* and the four routes.  Strings that the code edits are sequences of     *)
(* one-character strings; an Optional[str] is a record with a `some`      *)
(* flag; an HMAC is the ideal one: the record of what was signed and with  *)
(* which key.                                                              *)
(***************************************************************************)
EXTENDS Integers, Sequences, FiniteSets

VARIABLES
    environ,        \* os.environ: the two variables read at import time
    index_html,     \* contents of public/index.html
    bearer_status,  \* status HTTPBearer answers with when no credentials are sent
    phase,          \* position of the module body: load_jwt, load_anon, serving, aborted
    JWT_SECRET,     \* module global, line 15
    ANON_KEY,       \* module global, line 20
    inflight        \* the requests being handled, each with its position

vars == <<environ, index_html, bearer_status, phase, JWT_SECRET, ANON_KEY, inflight>>

(************************* bounds of the model *****************************)
\* Requests handled at the same time.
MaxInFlight == 2
\* Segments a template of public/index.html is built from.
MaxSegs == 3
\* The clock read by the token decoder (seconds); claims are placed around it.
Now == 5

(************************* Optional[str] ***********************************)
None == [some |-> FALSE, val |-> <<>>]
Some(s) == [some |-> TRUE, val |-> s]

\* (`if X is None`: an empty value passes.)
FalsyIsNoneOnly(x) == ~x.some
\* `not X` for an Optional[str]: None and "" are falsy.
Falsy(x) == ~x.some \/ x.val = <<>>

(************************* strings *****************************************)
\* The literal 'content=""' of line 66.
Marker == <<"c", "o", "n", "t", "e", "n", "t", "=", "\"", "\"">>
\* The f-string of line 67: 'content="' + key + '"'.
Replacement(key) == <<"c", "o", "n", "t", "e", "n", "t", "=", "\"">> \o key \o <<"\"">>

StartsWith(s, old) == Len(s) >= Len(old) /\ SubSeq(s, 1, Len(old)) = old

\* str.replace(old, new, 1): only the first occurrence.
RECURSIVE ReplaceFirstOnly(_, _, _)
ReplaceFirstOnly(s, old, new) ==
    IF Len(s) < Len(old) THEN s
    ELSE IF StartsWith(s, old)
         THEN new \o SubSeq(s, Len(old) + 1, Len(s))
         ELSE <<Head(s)>> \o ReplaceFirstOnly(Tail(s), old, new)

\* str.replace(old, new) with a non-empty old: every non-overlapping
\* occurrence, leftmost first; the inserted text is not scanned again.
RECURSIVE StrReplace(_, _, _)
StrReplace(s, old, new) ==
    IF Len(s) < Len(old) THEN s
    ELSE IF StartsWith(s, old)
         THEN new \o StrReplace(SubSeq(s, Len(old) + 1, Len(s)), old, new)
         ELSE <<Head(s)>> \o StrReplace(Tail(s), old, new)

(************************* tokens ******************************************)
\* A claim value of the payload: absent, an integer, a non-numeric string,
\* or JSON null.
Absent == [k |-> "absent", v |-> 0]
IntVal(n) == [k |-> "int", v |-> n]
StrVal == [k |-> "str", v |-> 0]
NullVal == [k |-> "null", v |-> 0]

\* The payload segment once base64- and JSON-decoded.  form is "object" for a
\* JSON object and "array" for any other JSON value.
BasePayload == [form |-> "object", exp |-> Absent, nbf |-> Absent,
                aud |-> "absent", role |-> "anon"]

Payloads ==
    { BasePayload,
      [BasePayload EXCEPT !.role = "service_role"],
      [BasePayload EXCEPT !.exp = IntVal(Now + 1)],
      [BasePayload EXCEPT !.exp = IntVal(Now - 1)],
      [BasePayload EXCEPT !.exp = StrVal],
      [BasePayload EXCEPT !.exp = NullVal],
      [BasePayload EXCEPT !.nbf = IntVal(Now + 1)],
      [BasePayload EXCEPT !.aud = "authenticated"],
      [BasePayload EXCEPT !.form = "array"] }

Secret == <<"s">>
OtherSecret == <<"t">>

\* HMAC of the signing input (header and payload segments) under key with the
\* hash of alg: two MACs agree only if algorithm, key and input agree.
Hmac(alg, key, hdr, payload) ==
    [alg |-> alg, key |-> key, hdr |-> hdr, payload |-> payload]
NoSig == Hmac("none", <<>>, "none", BasePayload)

\* jwt.encode(payload, key, algorithm=alg): what an issuer holding key sends.
Encode(payload, key, alg) ==
    [wf |-> TRUE, alg |-> alg, payload |-> payload,
     sig |-> IF alg = "none" THEN NoSig ELSE Hmac(alg, key, alg, payload)]

\* A string that is not three base64url segments with a JSON-object header.
Malformed == [wf |-> FALSE, alg |-> "none", payload |-> BasePayload, sig |-> NoSig]

\* A token whose payload was edited after signing.
Tampered ==
    [Encode(BasePayload, Secret, "HS256") EXCEPT
        !.payload = [BasePayload EXCEPT !.role = "service_role"]]

Tokens ==
    { Encode(p, Secret, "HS256") : p \in Payloads }
    \cup { Encode(BasePayload, OtherSecret, "HS256"),
           Encode(BasePayload, Secret, "HS384"),
           Encode(BasePayload, Secret, "HS512"),
           Encode(BasePayload, Secret, "none"),
           Tampered, Malformed }

\* The Authorization header: absent, or "Bearer <token>".
NoHeader == [present |-> FALSE, token |-> Malformed]
Bearer(t) == [present |-> TRUE, token |-> t]
Headers == {NoHeader} \cup { Bearer(t) : t \in Tokens }
\* What is sent to the two routes that never look at the header.
PublicHeaders == {NoHeader, Bearer(Encode(BasePayload, Secret, "HS256")), Bearer(Malformed)}

(************************* python-jose: jwt.decode *************************)
\* (algorithms left at every HMAC family.)
AlgorithmsAnyHmac == {"HS256", "HS384", "HS512"}
\* algorithms=['HS256'], line 46.
Algorithms == {"HS256"}

\* (options verify_signature off.)
SigMatchesUnverified(token, key) == TRUE
\* jws._sig_matches_keys: recompute the MAC under key and compare.
SigMatchesKeys(token, key) ==
    token.sig = Hmac(token.alg, key, token.alg, token.payload)

\* jws.verify: parse the three segments, refuse an algorithm outside
\* `algorithms`, then check the signature.  Any failure is a JWSError, which
\* jwt.decode re-raises as JWTError.
JwsVerify(token, key, algorithms) ==
    IF ~token.wf THEN "JWTError"
    ELSE IF token.alg \notin algorithms THEN "JWTError"
    ELSE IF ~SigMatchesKeys(token, key) THEN "JWTError"
    ELSE "ok"

\* int(claims[name]): a number converts, a non-numeric string raises
\* ValueError (turned into JWTClaimsError), null raises TypeError (not caught).
IntOf(c) == CASE c.k = "int" -> "ok" [] c.k = "str" -> "JWTError" [] OTHER -> "TypeError"

ValidateNbf(p) ==
    IF p.nbf.k = "absent" THEN "ok"
    ELSE IF IntOf(p.nbf) # "ok" THEN IntOf(p.nbf)
    ELSE IF p.nbf.v > Now THEN "JWTError" ELSE "ok"

\* (with options require_exp: a token without exp is refused.)
ValidateExpRequired(p) ==
    IF p.exp.k = "absent" THEN "JWTError"
    ELSE IF IntOf(p.exp) # "ok" THEN IntOf(p.exp)
    ELSE IF p.exp.v < Now THEN "JWTError" ELSE "ok"

\* exp < now raises ExpiredSignatureError, a JWTError.
ValidateExp(p) ==
    IF p.exp.k = "absent" THEN "ok"
    ELSE IF IntOf(p.exp) # "ok" THEN IntOf(p.exp)
    ELSE IF p.exp.v < Now THEN "JWTError" ELSE "ok"

\* decode is called without audience=: a token that carries aud is refused.
ValidateAud(p) == IF p.aud = "absent" THEN "ok" ELSE "JWTError"

\* jwt._validate_claims, in its order; the first failure is raised.  The
\* checks of iat, iss, sub, jti and at_hash concern claims no payload of
\* Payloads carries.
ValidateClaims(p) ==
    IF ValidateNbf(p) # "ok" THEN ValidateNbf(p)
    ELSE IF ValidateExp(p) # "ok" THEN ValidateExp(p)
    ELSE ValidateAud(p)

\* jwt.decode(token, key, algorithms): "ok" (the claims are returned),
\* "JWTError", or "TypeError".
JwtDecode(token, key, algorithms) ==
    IF JwsVerify(token, key, algorithms) # "ok" THEN "JWTError"
    ELSE IF token.payload.form # "object" THEN "JWTError"
    ELSE ValidateClaims(token.payload)

(************************* responses ***************************************)
Json(status, pairs) == [status |-> status, json |-> pairs, text |-> "", html |-> <<>>]
Html(chars) == [status |-> 200, json |-> <<>>, text |-> "", html |-> chars]
NoResponse == [status |-> 0, json |-> <<>>, text |-> "", html |-> <<>>]

\* HTTPBearer(auto_error=True) without credentials.
NotAuthenticated(status) == Json(status, << <<"detail", "Not authenticated">> >>)

\* (status 403 in place of 401.)
InvalidTokenErrorForbidden == Json(403, << <<"detail", "Invalid authentication token">> >>)
\* lines 50-53.
InvalidTokenError == Json(401, << <<"detail", "Invalid authentication token">> >>)

\* An exception no handler catches: the framework's 500.
InternalServerError ==
    [status |-> 500, json |-> <<>>, text |-> "Internal Server Error", html |-> <<>>]

\* line 58.
Healthy == Json(200, << <<"status", "healthy">> >>)
\* line 74.
AccessGranted == Json(200, << <<"message", "Access granted to protected API route">> >>)

\* (the "status" entry left out.)
hello_world_message_only == << <<"message", "Hello, World!">> >>
\* lines 80-84.
hello_world == << <<"message", "Hello, World!">>, <<"status", "success">> >>

\* JSONResponse(content=...) renders with json.dumps, which raises on a value
\* that is not JSON: here every value must be a string.
JsonSerializable(pairs) ==
    \A i \in 1..Len(pairs) : pairs[i][2] \in STRING

\* lines 88-95: the body of run_hello_world.
HelloResponse ==
    IF JsonSerializable(hello_world)
    THEN Json(200, hello_world)
    ELSE Json(500, << <<"detail", "Error executing Python script: not JSON serializable">> >>)

\* lines 62-69: the body of root.
RootResponse(template, key) == Html(StrReplace(template, Marker, Replacement(key)))

(************************* templates ***************************************)
\* Pieces of public/index.html: the marker, text around it, and the two
\* halves that form a marker only when they meet.
Segments ==
    { Marker,
      <<"<">>,
      <<"c", "o", "n", "t", "e", "n", "t", "=", "\"">>,
      <<"\"">>,
      <<"k">> }

RECURSIVE TemplatesOf(_)
TemplatesOf(n) ==
    IF n = 0 THEN {<<>>}
    ELSE TemplatesOf(n - 1)
         \cup { t \o seg : t \in TemplatesOf(n - 1), seg \in Segments }

Templates == TemplatesOf(MaxSegs)

\* A page with one meta tag whose content attribute is empty.
DefaultTemplate == <<"<">> \o Marker \o <<"<">>

AnonKeys == { <<"k">>, <<"k", "\"">>, Marker }

(************************* routing *****************************************)
\* (every JSON route declared with the dependency.)
DependsOnVerifyJwtAll(route) == route # "root"
\* The routes declared with Depends(verify_jwt), lines 73 and 87.
DependsOnVerifyJwt(route) == route \in {"protected", "hello"}

NewRequest(route, auth) ==
    [route |-> route, auth |-> auth, stage |-> "received",
     credentials |-> Malformed, verified |-> FALSE, response |-> NoResponse]

\* (kept on the shared HTTPBearer instance instead: the ones of whichever
\* request is waiting for verification.)
CredentialsOfAny(r) == (CHOOSE q \in inflight : q.stage = "verify").credentials
\* The credentials verify_jwt receives: the ones HTTPBearer extracted from
\* this request.
CredentialsOf(r) == r.credentials

Respond(r, resp) == [r EXCEPT !.stage = "responded", !.response = resp]

Replace(r, q) == (inflight \ {r}) \cup {q}

(************************* start-up ****************************************)
\* lines 15-17.
LoadJwtSecret ==
    /\ phase = "load_jwt"
    /\ JWT_SECRET' = environ.JWT_SECRET
    /\ phase' = IF Falsy(environ.JWT_SECRET) THEN "aborted" ELSE "load_anon"
    /\ UNCHANGED <<environ, index_html, bearer_status, ANON_KEY, inflight>>

\* lines 20-22.
LoadAnonKey ==
    /\ phase = "load_anon"
    /\ ANON_KEY' = environ.SUPABASE_ANON_KEY
    /\ phase' = IF Falsy(environ.SUPABASE_ANON_KEY) THEN "aborted" ELSE "serving"
    /\ UNCHANGED <<environ, index_html, bearer_status, JWT_SECRET, inflight>>

(************************* requests ****************************************)
Static == <<environ, index_html, bearer_status, phase, JWT_SECRET, ANON_KEY>>

\* The server accepts a request for one of the four routes.
Receive(route, auth, limit) ==
    /\ phase = "serving"
    /\ Cardinality(inflight) < limit
    /\ NewRequest(route, auth) \notin inflight
    /\ inflight' = inflight \cup {NewRequest(route, auth)}
    /\ UNCHANGED Static

\* security = HTTPBearer(), resolved first for a route that depends on
\* verify_jwt: no Authorization header is refused here.
security(r) ==
    /\ r.stage = "received" /\ DependsOnVerifyJwt(r.route)
    /\ inflight' = Replace(r,
          IF r.auth.present
          THEN [r EXCEPT !.stage = "verify", !.credentials = r.auth.token]
          ELSE Respond(r, NotAuthenticated(bearer_status)))
    /\ UNCHANGED Static

\* lines 39-53.
verify_jwt(r) ==
    /\ r.stage = "verify"
    /\ LET outcome == JwtDecode(CredentialsOf(r), JWT_SECRET.val, Algorithms)
           ran == [r EXCEPT !.verified = TRUE]
       IN inflight' = Replace(r,
            CASE outcome = "ok" -> [ran EXCEPT !.stage = "handler"]
              [] outcome = "JWTError" -> Respond(ran, InvalidTokenError)
              [] OTHER -> Respond(ran, InternalServerError))
    /\ UNCHANGED Static

\* lines 56-58.
health_check(r) ==
    /\ r.route = "health"
    /\ r.stage = (IF DependsOnVerifyJwt(r.route) THEN "handler" ELSE "received")
    /\ inflight' = Replace(r, Respond(r, Healthy))
    /\ UNCHANGED Static

\* lines 60-69.
root(r) ==
    /\ r.route = "root"
    /\ r.stage = (IF DependsOnVerifyJwt(r.route) THEN "handler" ELSE "received")
    /\ inflight' = Replace(r, Respond(r, RootResponse(index_html, ANON_KEY.val)))
    /\ UNCHANGED Static

\* lines 72-74.
protected_route(r) ==
    /\ r.route = "protected"
    /\ r.stage = (IF DependsOnVerifyJwt(r.route) THEN "handler" ELSE "received")
    /\ inflight' = Replace(r, Respond(r, AccessGranted))
    /\ UNCHANGED Static

\* lines 86-95.
run_hello_world(r) ==
    /\ r.route = "hello"
    /\ r.stage = (IF DependsOnVerifyJwt(r.route) THEN "handler" ELSE "received")
    /\ inflight' = Replace(r, Respond(r, HelloResponse))
    /\ UNCHANGED Static

\* The response is sent and the request is over.
Send(r) ==
    /\ r.stage = "responded"
    /\ inflight' = inflight \ {r}
    /\ UNCHANGED Static

(************************* specifications **********************************)
InitWith(templates, keys) ==
    /\ environ \in [JWT_SECRET : {None, Some(<<>>), Some(Secret)},
                    SUPABASE_ANON_KEY : {None, Some(<<>>)} \cup {Some(k) : k \in keys}]
    /\ index_html \in templates
    /\ bearer_status \in {403, 401}
    /\ phase = "load_jwt"
    /\ JWT_SECRET = None
    /\ ANON_KEY = None
    /\ inflight = {}

Init == InitWith({DefaultTemplate}, {<<"k">>})

Next ==
    \/ LoadJwtSecret
    \/ LoadAnonKey
    \/ \E route \in {"protected", "hello"}, auth \in Headers :
            Receive(route, auth, MaxInFlight)
    \/ \E route \in {"health", "root"}, auth \in PublicHeaders :
            Receive(route, auth, MaxInFlight)
    \/ \E r \in inflight : security(r)
    \/ \E r \in inflight : verify_jwt(r)
    \/ \E r \in inflight : health_check(r)
    \/ \E r \in inflight : root(r)
    \/ \E r \in inflight : protected_route(r)
    \/ \E r \in inflight : run_hello_world(r)
    \/ \E r \in inflight : Send(r)

Spec == Init /\ [][Next]_vars

\* The root route alone, over every template and key.
InitRoot == InitWith(Templates, AnonKeys)

NextRoot ==
    \/ LoadJwtSecret
    \/ LoadAnonKey
    \/ \E auth \in PublicHeaders : Receive("root", auth, 1)
    \/ \E r \in inflight : root(r)
    \/ \E r \in inflight : Send(r)

SpecRoot == InitRoot /\ [][NextRoot]_vars

(************************* properties **************************************)
Responded(route) == { r \in inflight : r.route = route /\ r.stage = "responded" }
ProtectedRoutes == {"protected", "hello"}

\* The payloads of section 6, written out.
Detail401 ==
    [status |-> 401, json |-> << <<"detail", "Invalid authentication token">> >>,
     text |-> "", html |-> <<>>]
Body200(pairs) == [status |-> 200, json |-> pairs, text |-> "", html |-> <<>>]
GrantedBody == Body200(<< <<"message", "Access granted to protected API route">> >>)
HelloBody == Body200(<< <<"message", "Hello, World!">>, <<"status", "success">> >>)
HealthyBody == Body200(<< <<"status", "healthy">> >>)

\* The token is three well-formed segments, names HS256, and its signature is
\* the HS256 MAC of its own header and payload under the configured secret.
SignedWithSecret(t) ==
    /\ t.wf /\ t.alg = "HS256"
    /\ t.sig = [alg |-> "HS256", key |-> JWT_SECRET.val, hdr |-> "HS256",
                payload |-> t.payload]

\* The payload is a JSON object that passes the decoder's default checks:
\* nbf, if there, a number not after now; exp, if there, a number not before
\* now; no aud (decode is given no audience).
ClaimsPass(p) ==
    /\ p.form = "object"
    /\ p.nbf.k = "absent" \/ (p.nbf.k = "int" /\ p.nbf.v <= Now)
    /\ p.exp.k = "absent" \/ (p.exp.k = "int" /\ p.exp.v >= Now)
    /\ p.aud = "absent"

\* C1: on the two protected routes the verifier has run before the handler
\* body, and a 200 is answered only to a token whose HS256 signature
\* validates against JWT_SECRET.
C1_OnlyVerifiedGets200 ==
    \A r \in inflight :
        (r.route \in ProtectedRoutes
         /\ (r.stage = "handler" \/ (r.stage = "responded" /\ r.response.status = 200)))
        => r.verified /\ r.auth.present /\ SignedWithSecret(r.auth.token)

C1_Witness ==
    \E r \in Responded("protected") : r.response.status = 200 /\ r.verified

\* A token that was not signed with the configured secret, or is no token.
NotOurs(t) == ~t.wf \/ t.sig.key # JWT_SECRET.val

Unset(x) == ~x.some \/ x.val = <<>>

\* C4: with JWT_SECRET or SUPABASE_ANON_KEY missing or empty the module body
\* aborts and no request is ever accepted; whenever a request is being
\* handled both configuration values are non-empty.
C4_NoServingWithoutConfig ==
    /\ (Unset(environ.JWT_SECRET) /\ phase # "load_jwt") => phase = "aborted"
    /\ (Unset(environ.SUPABASE_ANON_KEY) /\ phase \notin {"load_jwt", "load_anon"})
          => phase = "aborted"
    /\ phase = "aborted" => inflight = {}
    /\ inflight # {} =>
          /\ JWT_SECRET.some /\ JWT_SECRET.val # <<>>
          /\ ANON_KEY.some /\ ANON_KEY.val # <<>>

C4_Witness ==
    /\ phase = "aborted"
    /\ environ.JWT_SECRET = Some(Secret)
    /\ environ.SUPABASE_ANON_KEY = Some(<<>>)

\* Where the marker stands in a template.
Occurrences(t) ==
    { i \in 1..Len(t) : i + Len(Marker) - 1 <= Len(t)
                        /\ SubSeq(t, i, i + Len(Marker) - 1) = Marker }

\* What becomes of the character at position i: the first character of a
\* marker becomes the whole replacement, the rest of a marker vanishes, any
\* other character stays.
Piece(t, i, key) ==
    IF i \in Occurrences(t) THEN Replacement(key)
    ELSE IF \E j \in Occurrences(t) : j < i /\ i <= j + Len(Marker) - 1 THEN <<>>
    ELSE <<t[i]>>

RECURSIVE Pieces(_, _, _)
Pieces(t, i, key) == IF i > Len(t) THEN <<>> ELSE Piece(t, i, key) \o Pieces(t, i + 1, key)

Contains(s, sub) == \E i \in 1..Len(s) : StartsWith(SubSeq(s, i, Len(s)), sub)

\* C5 as stated: for every template and key the page returned by GET / has
\* the key substituted at the placeholder (it contains content="<ANON_KEY>")
\* and nothing outside the placeholder is altered.
C5_Original ==
    \A r \in Responded("root") :
        /\ r.response.html = Pieces(index_html, 1, ANON_KEY.val)
        /\ Contains(r.response.html, Replacement(ANON_KEY.val))

\* C5 amended: the page returned by GET / is the template with every
\* occurrence of content="" replaced by content="<ANON_KEY>" and every other
\* character kept; a template without the marker is returned unchanged, and
\* then the page need not contain the key.
C5_EveryMarkerReplaced ==
    \A r \in Responded("root") :
        /\ r.response.status = 200
        /\ r.response.html = Pieces(index_html, 1, ANON_KEY.val)
        /\ Len(r.response.html)
             = Len(index_html) + Cardinality(Occurrences(index_html)) * Len(ANON_KEY.val)
        /\ Occurrences(index_html) = {} => r.response.html = index_html
        /\ Occurrences(index_html) # {} =>
             Contains(r.response.html, Replacement(ANON_KEY.val))

C5_Witness ==
    \E r \in Responded("root") :
        /\ Cardinality(Occurrences(index_html)) = 2
        /\ Contains(r.response.html, Replacement(ANON_KEY.val))

\* C6: a token whose header names an algorithm other than HS256 gets the 401
\* authentication failure on both protected routes, even when it was made
\* with JWT_SECRET.
C6_OnlyHS256 ==
    \A r \in inflight :
        (r.route \in ProtectedRoutes /\ r.stage = "responded"
         /\ r.auth.present /\ r.auth.token.wf /\ r.auth.token.alg # "HS256")
        => r.response = Detail401

C6_Witness ==
    /\ \E r \in Responded("protected") :
          r.auth.present /\ r.auth.token.alg = "HS384"
          /\ r.auth.token.sig.key = JWT_SECRET.val
    /\ \E r \in Responded("hello") :
          r.auth.present /\ r.auth.token.wf /\ r.auth.token.alg = "none"

\* C7: GET /api/v1/health answers 200 {"status": "healthy"} with or without
\* an Authorization header, valid or not, and the verifier never runs for it.
C7_HealthAlwaysHealthy ==
    \A r \in inflight :
        r.route = "health"
        => /\ ~r.verified
           /\ r.stage \in {"received", "responded"}
           /\ r.stage = "responded" => r.response = HealthyBody

C7_Witness ==
    /\ \E r \in Responded("health") : ~r.auth.present
    /\ \E r \in Responded("health") : r.auth.present /\ ~r.auth.token.wf

\* C8: POST /api/v1/hello with a valid token (one the verifier accepts)
\* answers 200 {"message": "Hello, World!", "status": "success"}, whatever the
\* token's other claims are.
C8_HelloWithValidToken ==
    \A r \in Responded("hello") :
        (r.auth.present /\ SignedWithSecret(r.auth.token)
         /\ ClaimsPass(r.auth.token.payload))
        => r.response = HelloBody

C8_Witness ==
    \E r \in Responded("hello") :
        /\ r.auth.present /\ SignedWithSecret(r.auth.token)
        /\ r.auth.token.payload.role = "service_role"
        /\ r.response = HelloBody

\* The response to a request handled alone, from the configuration loaded at
\* start-up.
Alone(route, auth) ==
    CASE route = "health" -> Healthy
      [] route = "root" -> RootResponse(index_html, environ.SUPABASE_ANON_KEY.val)
      [] OTHER ->
           IF ~auth.present THEN NotAuthenticated(bearer_status)
           ELSE CASE JwtDecode(auth.token, environ.JWT_SECRET.val, Algorithms) = "ok" ->
                       (IF route = "hello" THEN HelloResponse ELSE AccessGranted)
                  [] JwtDecode(auth.token, environ.JWT_SECRET.val, Algorithms) = "JWTError" ->
                       InvalidTokenError
                  [] OTHER -> InternalServerError

\* C9: whatever else is in flight and whatever was handled before, a request
\* gets the response it would get alone, and while requests are served
\* JWT_SECRET and ANON_KEY keep the values loaded at start-up.
C9_RequestsIndependent ==
    /\ phase = "serving" =>
          JWT_SECRET = environ.JWT_SECRET /\ ANON_KEY = environ.SUPABASE_ANON_KEY
    /\ \A r \in inflight :
          /\ r.stage = "responded" => r.response = Alone(r.route, r.auth)
          /\ r.stage = "verify" => r.credentials = r.auth.token

C9_Witness ==
    \E r, q \in inflight :
        /\ r.route = "protected" /\ r.stage = "responded" /\ r.response.status = 200
        /\ q.route = "protected" /\ q.stage = "verify"
        /\ q.credentials.sig.key = OtherSecret

\* C10: POST /api/v1/hello never answers 500: every response of the route is
\* the 200 success payload or an authentication failure.
C10_Original ==
    \A r \in Responded("hello") :
        \/ r.response = HelloBody
        \/ r.response.status \in {401, 403}

====
